---------------------------- MODULE Spec2Model ----------------------------
(***************************************************************************)
(* H-mesh generation of turbogen/hmesh.py: streamwise_grid, merid_grid and *)
(* blade_to_blade_mesh.                                                    *)
(*                                                                         *)
(* Numbers.  Python floats are carried as exact rationals [n, d] in lowest *)
(* terms (d > 0); d = 0 stands for the IEEE results of a division by zero  *)
(* (numpy warns and returns inf/nan, it does not raise).  np.cos is        *)
(* evaluated by its Taylor series in fixed point and rounded to 1/Res, so  *)
(* a clustering vector is a vector of rationals k/(2*Res).  Rounding of    *)
(* the remaining float operations is not modelled.                         *)
(*                                                                         *)
(* Indices.  TLA+ sequences are 1-based; every index stored in the state   *)
(* (i_edge, ii, icl) is the 0-based Python index, and Py(s, i) reads s[i]. *)
(***************************************************************************)
EXTENDS Integers, Sequences, FiniteSets, TLC

VARIABLES pc, args, loc, ret, exc

vars == <<pc, args, loc, ret, exc>>

(***************************************************************************)
(* Exact rational arithmetic                                               *)
(***************************************************************************)
Abs(n) == IF n < 0 THEN -n ELSE n

Sgn(n) == IF n < 0 THEN -1 ELSE IF n > 0 THEN 1 ELSE 0

RECURSIVE GCD(_, _)
GCD(a, b) == IF b = 0 THEN a ELSE GCD(b, a % b)

\* n/d in lowest terms with a positive denominator; d = 0 is inf (n # 0) or nan
Rat(n, d) ==
  IF d = 0 THEN [n |-> Sgn(n), d |-> 0]
  ELSE LET g == GCD(Abs(n), Abs(d))
           s == IF d < 0 THEN -1 ELSE 1
       IN  [n |-> (s * n) \div g, d |-> (s * d) \div g]

R(k) == [n |-> k, d |-> 1]

RNeg(a) == [n |-> -a.n, d |-> a.d]

RAdd(a, b) ==
  IF a.d = 0 \/ b.d = 0
    THEN (IF a.d = 0 /\ b.d = 0 /\ a.n # b.n THEN Rat(0, 0)
          ELSE IF a.d = 0 THEN a ELSE b)
    ELSE LET g == GCD(a.d, b.d)
             l == (a.d \div g) * b.d
         IN  Rat(a.n * (l \div a.d) + b.n * (l \div b.d), l)

RSub(a, b) == RAdd(a, RNeg(b))

RMul(a, b) ==
  IF a.d = 0 \/ b.d = 0 THEN Rat(Sgn(a.n) * Sgn(b.n), 0)
  ELSE LET g1 == GCD(Abs(a.n), b.d)
           g2 == GCD(Abs(b.n), a.d)
       IN  Rat((a.n \div g1) * (b.n \div g2), (a.d \div g2) * (b.d \div g1))

\* float division as numpy performs it: x/0 is +-inf or nan, never an exception
RDiv(a, b) ==
  IF b.d = 0 THEN Rat(0, IF a.d = 0 THEN 0 ELSE 1)
  ELSE IF b.n = 0 THEN Rat(a.n, 0)
  ELSE RMul(a, [n |-> Sgn(b.n) * b.d, d |-> Abs(b.n)])

\* comparisons; every comparison with nan is false
RLt(a, b) ==
  IF a.d = 0 \/ b.d = 0
    THEN (IF a.d = 0 /\ b.d = 0 THEN a.n < b.n /\ a.n # 0 /\ b.n # 0
          ELSE IF a.d = 0 THEN a.n < 0 ELSE b.n > 0)
    ELSE RSub(a, b).n < 0

RGt(a, b) == RLt(b, a)

RAbs(a) == [n |-> Abs(a.n), d |-> a.d]

\* int(): truncation towards zero
Trunc(a) == IF a.n >= 0 THEN a.n \div a.d ELSE -((-a.n) \div a.d)

(***************************************************************************)
(* Sequence helpers for the numpy slicing the code uses                    *)
(***************************************************************************)
\* s[i] with a 0-based index
Py(s, i) == s[i + 1]

\* s[a:b] with 0-based, end-exclusive bounds 0 <= a, b <= len(s)
Slice(s, a, b) == IF b <= a THEN <<>> ELSE SubSeq(s, a + 1, b)

Last(s) == s[Len(s)]

\* np.where(mask)[0]: the 0-based indices at which the boolean array is true
Where(mask) ==
  SelectSeq([i \in 1..Len(mask) |-> i - 1], LAMBDA i : mask[i + 1])

\* s[mask]
Masked(s, mask) == LET idx == Where(mask) IN [k \in 1..Len(idx) |-> Py(s, idx[k])]

\* ndarray.min()
RMinSeq(s) ==
  s[CHOOSE i \in 1..Len(s) : \A j \in 1..Len(s) : ~RLt(s[j], s[i])]

\* ndarray.max()
RMaxSeq(s) ==
  s[CHOOSE i \in 1..Len(s) : \A j \in 1..Len(s) : ~RGt(s[j], s[i])]

\* np.diff
Diff(s) == [i \in 1..(Len(s) - 1) |-> RSub(s[i + 1], s[i])]

\* np.linspace(start, stop, num): num = 1 gives [start] alone
Linspace(start, stop, num) ==
  IF num <= 0 THEN <<>>
  ELSE IF num = 1 THEN <<start>>
  ELSE LET step == RDiv(RSub(stop, start), R(num - 1))
       IN  [i \in 1..num |->
              IF i = num THEN stop ELSE RAdd(start, RMul(R(i - 1), step))]

(***************************************************************************)
(* np.cos in fixed point                                                   *)
(***************************************************************************)
\* resolution of a cosine value: 1/Res
Res == 10 * 1000

\* working precision of the series: 1/Prec
Prec == 1000 * 1000

\* np.pi at the working precision
PiP == 3141593

\* number of series terms after the leading 1
CosTerms == 7

\* a*b/Prec for 0 <= a, b < 2*Prec without leaving 32 bits
MulP(a, b) ==
  LET ah == a \div 1000
      al == a % 1000
      bh == b \div 1000
      bl == b % 1000
  IN  ah * bh + (ah * bl + al * bh + (al * bl) \div 1000) \div 1000

RECURSIVE CosSeries(_, _, _)
CosSeries(x2, k, t) ==
  IF k > CosTerms THEN 0
  ELSE (IF k % 2 = 0 THEN t ELSE -t)
       + CosSeries(x2, k + 1, MulP(t, x2) \div ((2 * k + 1) * (2 * k + 2)))

\* cos(x/Prec)*Prec for 0 <= x <= PiP
CosP(x) ==
  LET h == PiP \div 2
      y == IF x > h THEN PiP - x ELSE x
      c == CosSeries(MulP(y, y), 0, Prec)
  IN  IF x > h THEN -c ELSE c

\* np.cos(np.pi * t) for a rational 0 <= t <= 1, rounded to 1/Res
CosPi(t) ==
  LET q == Prec \div Res
      c == CosP((PiP * t.n) \div t.d)
  IN  Rat((c + Prec + q \div 2) \div q - Res, Res)

(***************************************************************************)
(* hmesh.py, module level                                                  *)
(***************************************************************************)
nxb == 97

nr == 97

\* 0.5 * (1.0 - np.cos(np.pi * np.linspace(0.0, 1.0, npts)))
_cluster(npts) ==
  LET t == Linspace(R(0), R(1), npts)
  IN  [i \in 1..npts |-> RMul(Rat(1, 2), RSub(R(1), CosPi(t[i])))]


(***************************************************************************)
(* streamwise_grid(dx_c)                                                   *)
(***************************************************************************)
NoValue == <<>>

\* clust = _cluster(nxb)
clust == _cluster(nxb)

\* Stretch clustering outside of blade row
MirrorClust(cl) ==
  LET nxb2 == nxb \div 2
      front == [i \in 1..(nxb - nxb2) |-> RSub(cl[nxb2 + i], R(1))]
      x1 == front \o Tail(cl)
      back == [i \in 1..(nxb2 + 1) |-> RAdd(Last(x1), cl[i])]
  IN  Slice(x1, 0, Len(x1) - 1) \o back

\* nxu, nxd = [int((dx_ci - 0.5) / dmax) for dx_ci in dx_c]
NExtend(dx_ci, dmax) == Trunc(RDiv(RSub(dx_ci, Rat(1, 2)), dmax))

\* x_c[x_c < 0.] = x_c[x_c < 0.] * -dx_c[0]/x_c[0]
RescaleInlet(x, dx0) ==
  LET f == RDiv(RNeg(dx0), x[1])
  IN  [i \in 1..Len(x) |-> IF RLt(x[i], R(0)) THEN RMul(x[i], f) ELSE x[i]]

\* InletStep with the extension prepended to x_c instead of x_c[1:]
InletStep_KeepFirst(x, dx0, nxu) ==
  IF nxu > 0
    THEN Linspace(RNeg(dx0), x[1], nxu) \o x
    ELSE RescaleInlet(Masked(x, [i \in 1..Len(x) |-> RGt(x[i], RNeg(dx0))]), dx0)

\* the inlet side, `if nxu > 0: ... else: ...`
InletStep(x, dx0, nxu) ==
  IF nxu > 0
    THEN Linspace(RNeg(dx0), x[1], nxu) \o Tail(x)
    ELSE RescaleInlet(Masked(x, [i \in 1..Len(x) |-> RGt(x[i], RNeg(dx0))]), dx0)

\* RescaleOutlet with the mask x_c > 0. instead of x_c > 1.
RescaleOutlet_FromZero(x, dx1) ==
  LET f == RDiv(dx1, RSub(Last(x), R(1)))
  IN  [i \in 1..Len(x) |->
         IF RGt(x[i], R(0)) THEN RAdd(RMul(RSub(x[i], R(1)), f), R(1))
         ELSE x[i]]

\* x_c[x_c > 1.] = ((x_c[x_c > 1.] - 1.) * dx_c[1]/(x_c[-1] - 1.) + 1.)
RescaleOutlet(x, dx1) ==
  LET f == RDiv(dx1, RSub(Last(x), R(1)))
  IN  [i \in 1..Len(x) |->
         IF RGt(x[i], R(1)) THEN RAdd(RMul(RSub(x[i], R(1)), f), R(1))
         ELSE x[i]]

\* OutletStep truncating at dx_c[1] instead of dx_c[1] + 1
OutletStep_NoShift(x, dx1, nxd) ==
  IF nxd > 0
    THEN Slice(x, 0, Len(x) - 1) \o Linspace(Last(x), RAdd(dx1, R(1)), nxd)
    ELSE RescaleOutlet(Masked(x, [i \in 1..Len(x) |-> RLt(x[i], dx1)]), dx1)

\* the outlet side, `if nxd > 0: ... else: ...`
OutletStep(x, dx1, nxd) ==
  IF nxd > 0
    THEN Slice(x, 0, Len(x) - 1) \o Linspace(Last(x), RAdd(dx1, R(1)), nxd)
    ELSE RescaleOutlet(Masked(x, [i \in 1..Len(x) |-> RLt(x[i], RAdd(dx1, R(1)))]), dx1)

\* np.where(x_c == xloc)[0]
EdgeHits(x, xloc) == Where([i \in 1..Len(x) |-> x[i] = xloc])

\* lines 45-58: clustering, mirrored vector, numbers of duct points
SG_Cluster ==
  /\ pc = "sg_call"
  /\ LET dclust == Diff(clust)
         dmax == RMaxSeq(dclust)
     IN  loc' = [loc EXCEPT !.dmin = RMinSeq(dclust),
                            !.dmax = dmax,
                            !.x_c = MirrorClust(clust),
                            !.nxu = NExtend(args.dx_c[1], dmax),
                            !.nxd = NExtend(args.dx_c[2], dmax)]
  /\ pc' = "sg_inlet"
  /\ UNCHANGED <<args, ret, exc>>

\* lines 60-66
SG_Inlet ==
  /\ pc = "sg_inlet"
  /\ loc' = [loc EXCEPT !.x_c = InletStep(loc.x_c, args.dx_c[1], loc.nxu)]
  /\ pc' = "sg_outlet"
  /\ UNCHANGED <<args, ret, exc>>

\* lines 67-73
SG_Outlet ==
  /\ pc = "sg_outlet"
  /\ loc' = [loc EXCEPT !.x_c = OutletStep(loc.x_c, args.dx_c[2], loc.nxd)]
  /\ pc' = "sg_edges"
  /\ UNCHANGED <<args, ret, exc>>

\* lines 75-80: [0][0] of an empty np.where result raises IndexError
SG_Edges ==
  /\ pc = "sg_edges"
  /\ LET h0 == EdgeHits(loc.x_c, R(0))
         h1 == EdgeHits(loc.x_c, R(1))
     IN  IF h0 = <<>> \/ h1 = <<>>
           THEN /\ pc' = "sg_raise"
                /\ exc' = "IndexError"
                /\ UNCHANGED <<loc, ret>>
           ELSE /\ pc' = "sg_return"
                /\ loc' = [loc EXCEPT !.i_edge = <<h0[1], h1[1]>>]
                /\ ret' = [x_c |-> loc.x_c, i_edge |-> <<h0[1], h1[1]>>]
                /\ UNCHANGED exc
  /\ UNCHANGED args

\* duct distances tried, in units of 1/Res: 0, the distances below and
\* between the smallest clustering cells, multiples of 0.13 chord, and the
\* two distances at and just above half a chord
MaxTinyDx == 4

MaxDxSteps == 5

DxUnits ==
  (0..MaxTinyDx) \cup {13 * 100 * k : k \in 1..MaxDxSteps} \cup {Res \div 2, Res \div 2 + 100}

DxSet == {Rat(u, Res) : u \in DxUnits}

InitSG ==
  /\ pc = "sg_call"
  /\ args \in {[dx_c |-> <<a, b>>] : a \in DxSet, b \in DxSet}
  /\ loc = [dmin |-> NoValue, dmax |-> NoValue, x_c |-> NoValue,
            nxu |-> NoValue, nxd |-> NoValue, i_edge |-> NoValue]
  /\ ret = NoValue
  /\ exc = "none"

NextSG == SG_Cluster \/ SG_Inlet \/ SG_Outlet \/ SG_Edges

SpecSG == InitSG /\ [][NextSG]_vars


(***************************************************************************)
(* Properties of streamwise_grid                                           *)
(***************************************************************************)
sgDone == pc \in {"sg_return", "sg_raise"}

CountEq(x, v) == Cardinality({i \in 1..Len(x) : x[i] = v})

StrictlyIncreasing(x) == \A i \in 1..(Len(x) - 1) : RLt(x[i], x[i + 1])

\* the call returned a vector with exactly one 0.0 and one 1.0, and i_edge
\* holds their positions
EdgesExact ==
  /\ pc = "sg_return"
  /\ CountEq(ret.x_c, R(0)) = 1
  /\ CountEq(ret.x_c, R(1)) = 1
  /\ Py(ret.x_c, ret.i_edge[1]) = R(0)
  /\ Py(ret.x_c, ret.i_edge[2]) = R(1)

\* C1 as stated: for every pair of non-negative duct distances, 0 included,
\* streamwise_grid returns a vector with exactly one 0.0 and exactly one 1.0
\* and i_edge points at them.
C1_AnyNonNegative == sgDone => EdgesExact

\* C1 amended: the same for every pair of strictly positive duct distances
\* (a distance of 0 ends in IndexError at the edge lookup).
C1_Positive ==
  (sgDone /\ args.dx_c[1].n > 0 /\ args.dx_c[2].n > 0) => EdgesExact

\* C1 witness: an inlet distance below the smallest clustering cell was
\* truncated and the leading edge is found at index 0.
C1_Witness ==
  /\ pc = "sg_return"
  /\ args.dx_c[1].n > 0
  /\ RLt(args.dx_c[1], loc.dmin)
  /\ loc.nxu <= 0
  /\ ret.i_edge[1] = 0
  /\ loc.nxd <= 0
  /\ Py(ret.x_c, ret.i_edge[2]) = R(1)

\* C2: the returned vector starts at -dx_c[0] and ends at 1 + dx_c[1],
\* whichever branch each side took.
C2_BoundariesExact ==
  pc = "sg_return" =>
    /\ ret.x_c[1] = RNeg(args.dx_c[1])
    /\ Last(ret.x_c) = RAdd(R(1), args.dx_c[2])

\* C3: the returned vector is strictly increasing from first to last element
\* in every combination of extend and truncate branches.
C3_StrictlyIncreasing == pc = "sg_return" => StrictlyIncreasing(ret.x_c)

\* C3 witness: both sides extended, the inlet by a single point and the
\* outlet by several.
C3_Witness ==
  /\ pc = "sg_return"
  /\ loc.nxu = 1
  /\ loc.nxd > 1
  /\ ret.x_c[1] = RNeg(args.dx_c[1])

\* the coordinates of x that lie in the blade row, 0 <= x <= 1, in order
InBladeRow(x) ==
  Masked(x, [i \in 1..Len(x) |-> ~RLt(x[i], R(0)) /\ ~RGt(x[i], R(1))])

\* the returned entries from i_edge[0] to i_edge[1] inclusive
BladeBlock == Slice(ret.x_c, ret.i_edge[1], ret.i_edge[2] + 1)

\* C12: for every pair of strictly positive duct distances, extension,
\* truncation and rescaling leave the blade row alone: after each of the two
\* duct steps the coordinates in [0, 1] are the nxb values of the chord
\* clustering vector, the call returns, the entries from i_edge[0] to
\* i_edge[1] inclusive are exactly that vector, and
\* i_edge[1] - i_edge[0] = nxb - 1.
C12_BladeRowFrame ==
  (args.dx_c[1].n > 0 /\ args.dx_c[2].n > 0) =>
    /\ pc \in {"sg_outlet", "sg_edges", "sg_return"} =>
         InBladeRow(loc.x_c) = clust
    /\ sgDone =>
         /\ pc = "sg_return"
         /\ ret.i_edge[2] - ret.i_edge[1] = nxb - 1
         /\ BladeBlock = clust

\* C12 witness: the inlet duct was truncated and rescaled to its distance,
\* the outlet duct was extended by several points, and the nxb entries
\* between the returned edge indices are the clustering vector.
C12_Witness ==
  /\ pc = "sg_return"
  /\ loc.nxu <= 0
  /\ ret.i_edge[1] > 1
  /\ ret.x_c[1] = RNeg(args.dx_c[1])
  /\ loc.nxd > 1
  /\ Last(ret.x_c) = RAdd(R(1), args.dx_c[2])
  /\ ret.i_edge[2] - ret.i_edge[1] = nxb - 1
  /\ Len(BladeBlock) = nxb
  /\ BladeBlock = clust


(***************************************************************************)
(* blade_to_blade_mesh(x, r, ii, chi, nrt, s_c, a)                         *)
(***************************************************************************)
\* float('nan'), the initial content of rt
NaN == Rat(0, 0)

\* the blade-section generator, an external collaborator: a 3 x M array of
\* chordwise fraction, upper-surface offset and lower-surface offset
blade_section(chi_j, a) ==
  LET camber == <<R(0), Rat(chi_j[1], 2), Rat(chi_j[1] + chi_j[2], 2)>>
      thick == <<R(0), RAdd(Rat(1, 4), a), R(0)>>
  IN  << <<R(0), Rat(1, 2), R(1)>>,
         [m \in 1..3 |-> RAdd(camber[m], thick[m])],
         [m \in 1..3 |-> RSub(camber[m], thick[m])] >>

\* np.interp(xq, xp, fp) for increasing xp: linear inside, clamped outside
Interp(xq, xp, fp) ==
  IF ~RGt(xq, xp[1]) THEN fp[1]
  ELSE IF ~RLt(xq, Last(xp)) THEN Last(fp)
  ELSE LET k == CHOOSE k \in 1..(Len(xp) - 1) :
                  ~RLt(xq, xp[k]) /\ RLt(xq, xp[k + 1])
           slope == RDiv(RSub(fp[k + 1], fp[k]), RSub(xp[k + 1], xp[k]))
       IN  RAdd(fp[k], RMul(slope, RSub(xq, xp[k])))

\* xpass = x[ii[0] : ii[1]] - x[ii[0]]
XPass(x, ii) ==
  LET s == Slice(x, ii[1], ii[2])
  IN  [p \in 1..Len(s) |-> RSub(s[p], Py(x, ii[1]))]

\* c = xpass.ptp()
Chord(x, ii) == LET xp == XPass(x, ii) IN RSub(RMaxSeq(xp), RMinSeq(xp))

\* rmid = np.mean(r[ii[0], (0, -1)])
RMid(r, ii) ==
  LET row == Py(r, ii[1]) IN RDiv(RAdd(row[1], Last(row)), R(2))

\* lines 133-157 for one span station j (0-based): the rows
\* rt[ii[0]:ii[1], j, :] = rt0 + (rt1 - rt0) * clust3
PassageSection(x, r, ii, chi, nrt, s_c, a, j) ==
  LET xpass == XPass(x, ii)
      c == Chord(x, ii)
      rmid == RMid(r, ii)
      cl == _cluster(nrt)
      sect == blade_section(<<chi[1][j + 1], chi[2][j + 1]>>, a)
      sect_now == [q \in 1..3 |-> [m \in 1..Len(sect[q]) |-> RMul(sect[q][m], c)]]
      rt0 == [p \in 1..Len(xpass) |-> Interp(xpass[p], sect_now[1], sect_now[2])]
      rt1 == [p \in 1..Len(xpass) |->
                RAdd(Interp(xpass[p], sect_now[1], sect_now[3]),
                     RMul(RDiv(RMul(s_c, c), rmid), Py(Py(r, ii[1] + p - 1), j)))]
  IN  [p \in 1..Len(xpass) |->
         [k \in 1..nrt |-> RAdd(rt0[p], RMul(RSub(rt1[p], rt0[p]), cl[k]))]]

\* rt after the loop over j: nan outside the passage rows
PassageFill(x, r, ii, chi, nrt, s_c, a) ==
  LET nj == Len(chi[1])
      sec == [j \in 1..nj |-> PassageSection(x, r, ii, chi, nrt, s_c, a, j - 1)]
  IN  [i \in 1..Len(r) |->
         [j \in 1..Len(r[1]) |->
            [k \in 1..nrt |->
               IF i - 1 >= ii[1] /\ i - 1 < ii[2] /\ j <= nj
                 THEN sec[j][i - ii[1]][k]
                 ELSE NaN]]]

\* rt[: ii[0], :, :] = rt[ii[0], :, :]
\* rt[ii[1] :, :, :] = rt[ii[1] - 1, :, :]
Propagate(rt, ii) ==
  LET up == [i \in 1..Len(rt) |-> IF i - 1 < ii[1] THEN Py(rt, ii[1]) ELSE rt[i]]
  IN  [i \in 1..Len(rt) |-> IF i - 1 >= ii[2] THEN Py(up, ii[2] - 1) ELSE up[i]]

\* rt[(0, -1), :, :] = rt[(0, -1), :, 0] + (rt[(0, -1), :, -1] - rt[(0, -1), :, 0]) * unif_rt3
UniformEnds(rt, nrt) ==
  LET unif_rt == Linspace(R(0), R(1), nrt)
      Unif(st) == [j \in 1..Len(st) |->
                     [k \in 1..nrt |->
                        RAdd(st[j][1],
                             RMul(RSub(Last(st[j]), st[j][1]), unif_rt[k]))]]
  IN  [i \in 1..Len(rt) |-> IF i = 1 \/ i = Len(rt) THEN Unif(rt[i]) ELSE rt[i]]

\* v = np.zeros((n,)); v[icl] = vals
Scatter(n, icl, vals) ==
  [i \in 1..n |->
     IF \E k \in 1..Len(icl) : icl[k] = i - 1
       THEN vals[CHOOSE k \in 1..Len(icl) : icl[k] = i - 1]
       ELSE R(0)]

\* (x[ii[0]] - x[0]) / c > 1.0
UpLong(x, ii, c) == RGt(RDiv(RSub(Py(x, ii[1]), x[1]), c), R(1))

\* (x[-1] - x[ii[1] - 1]) / c > 1.0
DnLong(x, ii, c) == RGt(RDiv(RSub(Last(x), Py(x, ii[2] - 1)), c), R(1))

\* icl = np.where(xnow / c > -1.0)[0] with xnow = x[: ii[0]] - x[ii[0]]
IclUp(x, ii, c) ==
  LET xnow == [i \in 1..ii[1] |-> RSub(x[i], Py(x, ii[1]))]
  IN  Where([i \in 1..Len(xnow) |-> RGt(RDiv(xnow[i], c), R(-1))])

\* icl = np.where(np.abs((x - x[ii[1] - 1]) / c - 0.5) < 0.5)[0]
IclDn(x, ii, c) ==
  Where([i \in 1..Len(x) |->
           RLt(RAbs(RSub(RDiv(RSub(x[i], Py(x, ii[2] - 1)), c), Rat(1, 2))),
               Rat(1, 2))])

\* LinXUp with the full-duct ramp running on to the leading-edge station
LinXUp_ToEdge(x, ii, c) ==
  IF UpLong(x, ii, c)
    THEN LET icl == IclUp(x, ii, c)
         IN  Scatter(ii[1], icl, Linspace(R(0), R(1), Len(icl)))
    ELSE Slice(Linspace(R(0), R(1), ii[1] + 1), 0, ii[1])

\* lines 183-189
LinXUp(x, ii, c) ==
  IF UpLong(x, ii, c)
    THEN LET icl == IclUp(x, ii, c)
         IN  Scatter(ii[1], icl, Linspace(R(0), R(1), Len(icl)))
    ELSE Linspace(R(0), R(1), ii[1])

\* LinXDn with the full-duct ramp rising towards the exit
LinXDn_Rising(x, ii, c) ==
  IF DnLong(x, ii, c)
    THEN LET icl == IclDn(x, ii, c)
             full == Scatter(Len(x), icl, Linspace(R(1), R(0), Len(icl)))
         IN  Slice(full, ii[2], Len(x))
    ELSE Linspace(R(0), R(1), Len(x) - ii[2])

\* lines 191-197
LinXDn(x, ii, c) ==
  IF DnLong(x, ii, c)
    THEN LET icl == IclDn(x, ii, c)
             full == Scatter(Len(x), icl, Linspace(R(1), R(0), Len(icl)))
         IN  Slice(full, ii[2], Len(x))
    ELSE Linspace(R(1), R(0), Len(x) - ii[2])

\* base + (edge - base) * w, over span and circumferential index
Blend(base, edge, w) ==
  [j \in 1..Len(base) |->
     [k \in 1..Len(base[j]) |->
        RAdd(base[j][k], RMul(RSub(edge[j][k], base[j][k]), w))]]

\* rt[: ii[0], :, :] = rt[0, :, :] + (rt[ii[0], :, :] - rt[0, :, :]) * lin_x_up3
RelaxUp(rt, ii, lin_x_up) ==
  [i \in 1..Len(rt) |->
     IF i - 1 < ii[1] THEN Blend(rt[1], Py(rt, ii[1]), lin_x_up[i]) ELSE rt[i]]

\* rt[ii[1] :, :, :] = rt[-1, :, :] + (rt[ii[1], :, :] - rt[-1, :, :]) * lin_x_dn3
RelaxDn(rt, ii, lin_x_dn) ==
  [i \in 1..Len(rt) |->
     IF i - 1 >= ii[2]
       THEN Blend(Last(rt), Py(rt, ii[2]), lin_x_dn[i - ii[2]])
       ELSE rt[i]]

\* lines 118-157: chord, pitch, the passage rows of rt
B2B_Passage ==
  /\ pc = "b2b_call"
  /\ loc' = [loc EXCEPT
        !.xpass = XPass(args.x, args.ii),
        !.c = Chord(args.x, args.ii),
        !.rmid = RMid(args.r, args.ii),
        !.nj = Len(args.chi[1]),
        !.rt = PassageFill(args.x, args.r, args.ii, args.chi, args.nrt,
                           args.s_c, args.a)]
  /\ pc' = "b2b_ducts"
  /\ UNCHANGED <<args, ret, exc>>

\* lines 159-162: propagate the clustering into the ducts
B2B_Propagate ==
  /\ pc = "b2b_ducts"
  /\ loc' = [loc EXCEPT !.rt = Propagate(loc.rt, args.ii)]
  /\ pc' = "b2b_ends"
  /\ UNCHANGED <<args, ret, exc>>

\* lines 170-176: uniform distribution at the first and last station
B2B_Uniform ==
  /\ pc = "b2b_ends"
  /\ loc' = [loc EXCEPT !.rt = UniformEnds(loc.rt, args.nrt)]
  /\ pc' = "b2b_weights"
  /\ UNCHANGED <<args, ret, exc>>

\* lines 178-197: the relaxation weights of the two ducts
B2B_Weights ==
  /\ pc = "b2b_weights"
  /\ loc' = [loc EXCEPT
        !.up_long = UpLong(args.x, args.ii, loc.c),
        !.dn_long = DnLong(args.x, args.ii, loc.c),
        !.lin_x_up = LinXUp(args.x, args.ii, loc.c),
        !.lin_x_dn = LinXDn(args.x, args.ii, loc.c)]
  /\ pc' = "b2b_relax"
  /\ UNCHANGED <<args, ret, exc>>

\* lines 199-211: relax both ducts and return rt
B2B_Relax ==
  /\ pc = "b2b_relax"
  /\ LET rt == RelaxDn(RelaxUp(loc.rt, args.ii, loc.lin_x_up), args.ii, loc.lin_x_dn)
     IN  /\ loc' = [loc EXCEPT !.rt = rt]
         /\ ret' = rt
  /\ pc' = "b2b_return"
  /\ UNCHANGED <<args, exc>>

\* streamwise vectors tried: x[0] = 0 and cells of width 1 or 3, nx stations
MaxNx == 6

RECURSIVE CumSum(_)
CumSum(w) ==
  IF w = <<>> THEN <<R(0)>>
  ELSE LET h == CumSum(Slice(w, 0, Len(w) - 1))
       IN  Append(h, RAdd(Last(h), R(Last(w))))

XSet == UNION {{CumSum(w) : w \in [1..(n - 1) -> {1, 3}]} : n \in 3..MaxNx}

\* edge index pairs with at least two passage stations, so that c > 0
IISet(nx) == {<<a, b>> : a \in 0..(nx - 1), b \in 0..(nx - 1)} \cap
             {p \in (0..(nx - 1)) \X (0..(nx - 1)) : p[2] - p[1] >= 2}

\* circumferential point counts tried: MaxNrt - 1 and MaxNrt
MaxNrt == 4

\* two span stations, hub radius 2 and casing radius 3 at every station
RadiusField(nx) == [i \in 1..nx |-> <<R(2), R(3)>>]

\* metal angles (as slopes) tried, the same pair at both span stations
ChiSet == {<< <<0, 0>>, <<0, 0>> >>, << <<1, 2>>, <<-3, -1>> >>}

InitB2B ==
  /\ pc = "b2b_call"
  /\ \E x \in XSet : \E ii \in IISet(Len(x)) : \E chi \in ChiSet :
     \E nrt \in (MaxNrt - 1)..MaxNrt :
       args = [x |-> x, r |-> RadiusField(Len(x)), ii |-> ii, chi |-> chi,
               nrt |-> nrt, s_c |-> R(1), a |-> R(0)]
  /\ loc = [xpass |-> NoValue, c |-> NoValue, rmid |-> NoValue, nj |-> NoValue,
            rt |-> NoValue, up_long |-> NoValue, dn_long |-> NoValue,
            lin_x_up |-> NoValue, lin_x_dn |-> NoValue]
  /\ ret = NoValue
  /\ exc = "none"

NextB2B == B2B_Passage \/ B2B_Propagate \/ B2B_Uniform \/ B2B_Weights \/ B2B_Relax

SpecB2B == InitB2B /\ [][NextB2B]_vars


(***************************************************************************)
(* Properties of blade_to_blade_mesh                                       *)
(***************************************************************************)
b2bAfterChord ==
  pc \in {"b2b_ducts", "b2b_ends", "b2b_weights", "b2b_relax", "b2b_return"}

b2bAfterWeights == pc \in {"b2b_relax", "b2b_return"}

LastIdx == Len(args.x) - 1

\* non-empty ducts on both sides
Interior == 0 < args.ii[1] /\ args.ii[2] < LastIdx

\* trailing-edge coordinate minus leading-edge coordinate
EdgeChord == RSub(Py(args.x, args.ii[2]), Py(args.x, args.ii[1]))

UpDuctLength == RSub(Py(args.x, args.ii[1]), args.x[1])

DnDuctLength == RSub(Last(args.x), Py(args.x, args.ii[2]))

\* number of duct stations the linear ramp runs over
UpRamp ==
  IF loc.up_long THEN Len(IclUp(args.x, args.ii, loc.c)) ELSE args.ii[1]

DnRamp ==
  IF loc.dn_long THEN Len(IclDn(args.x, args.ii, loc.c))
  ELSE Len(args.x) - args.ii[2]

SameAtLE == Py(ret, args.ii[1] - 1) = Py(ret, args.ii[1])

SameAtTE == Py(ret, args.ii[2] - 1) = Py(ret, args.ii[2])

UniformBetween(st, e0, e1) ==
  \A j \in 1..Len(st) : \A k \in 1..args.nrt :
    st[j][k] = RAdd(e0[j], RMul(RSub(e1[j], e0[j]), Rat(k - 1, args.nrt - 1)))

\* first and last circumferential value of station i (0-based), per span station
EndsOf(rt, i) ==
  LET st == Py(rt, i)
  IN  [e0 |-> [j \in 1..Len(st) |-> st[j][1]],
       e1 |-> [j \in 1..Len(st) |-> Last(st[j])]]

\* C5: from the uniform step on, and so in the returned field, the first and
\* the last streamwise station are arithmetic progressions over the
\* circumferential index between the endpoint values of the passage stations
\* ii[0] and ii[1]-1 they were propagated from; the relaxation leaves them so.
C5_BoundaryUniform ==
  pc \in {"b2b_weights", "b2b_relax", "b2b_return"} =>
    /\ UniformBetween(loc.rt[1], EndsOf(loc.rt, args.ii[1]).e0,
                      EndsOf(loc.rt, args.ii[1]).e1)
    /\ UniformBetween(Last(loc.rt), EndsOf(loc.rt, args.ii[2] - 1).e0,
                      EndsOf(loc.rt, args.ii[2] - 1).e1)

\* C5 witness: a field was returned whose inlet station is uniform while the
\* clustered leading-edge station is not, after a chord-limited relaxation
\* upstream and a full-duct relaxation downstream.
C5_Witness ==
  /\ pc = "b2b_return"
  /\ Interior
  /\ loc.up_long
  /\ ~loc.dn_long
  /\ ret[1] # Py(ret, args.ii[1])
  /\ Last(ret) # Py(ret, args.ii[2])

\* C6: the chord used by blade_to_blade_mesh is x[ii[1]] - x[ii[0]].
C6_ChordBetweenEdges == b2bAfterChord => loc.c = EdgeChord

\* C7: the chord-limited relaxation is selected exactly when the duct length
\* (x[ii[0]] - x[0] upstream, x[-1] - x[ii[1]] downstream) strictly exceeds
\* one chord; when it is, the duct stations farther than one chord from the
\* adjacent edge have weight 0.
C7_LongDuctSelection ==
  (b2bAfterWeights /\ Interior) =>
    /\ loc.up_long <=> RGt(UpDuctLength, EdgeChord)
    /\ loc.dn_long <=> RGt(DnDuctLength, EdgeChord)
    /\ loc.up_long =>
         \A i \in 0..(args.ii[1] - 1) :
           RGt(RSub(Py(args.x, args.ii[1]), Py(args.x, i)), EdgeChord)
             => Py(loc.lin_x_up, i) = R(0)
    /\ loc.dn_long =>
         \A i \in args.ii[2]..LastIdx :
           RGt(RSub(Py(args.x, i), Py(args.x, args.ii[2])), EdgeChord)
             => Py(loc.lin_x_dn, i - args.ii[2]) = R(0)

\* C8: a duct shorter than one chord takes the full-duct branch: its weight
\* is linear in the streamwise index over the whole duct, 0 at the domain
\* boundary and 1 at the passage.
C8_ShortDuctFullRelax ==
  (b2bAfterWeights /\ Interior) =>
    /\ (args.ii[1] >= 2 /\ RLt(UpDuctLength, EdgeChord)) =>
         /\ ~loc.up_long
         /\ loc.lin_x_up = Linspace(R(0), R(1), args.ii[1])
    /\ (LastIdx - args.ii[2] >= 1 /\ RLt(DnDuctLength, EdgeChord)) =>
         /\ ~loc.dn_long
         /\ loc.lin_x_dn = Linspace(R(1), R(0), Len(args.x) - args.ii[2])

\* C10: a call with an edge index at 0 or at the last streamwise index ends
\* in an error and returns no array.
C10_ZeroDuctRejected ==
  (pc = "b2b_return" /\ ~Interior) => (exc # "none" /\ ret = NoValue)


(***************************************************************************)
(* merid_grid(x_c, rm, Dr, c)                                              *)
(***************************************************************************)
\* dxsmth_c = 0.2
dxsmth_c == Rat(1, 5)

\* make_design._fillet(x, r, dx): the samples with |x| <= dx are replaced by
\* a blend between the two samples at the ends of that window; samples
\* outside the window are untouched
_fillet(x, r, dx) ==
  LET ind == Where([i \in 1..Len(x) |-> ~RGt(RAbs(x[i]), dx)])
  IN  IF Len(ind) < 2 THEN r
      ELSE LET i0 == ind[1] + 1
               i1 == Last(ind) + 1
           IN  [i \in 1..Len(r) |->
                  IF i > i0 /\ i < i1
                    THEN Interp(x[i], <<x[i0], x[i1]>>, <<r[i0], r[i1]>>)
                    ELSE r[i]]

\* names bound at module level of hmesh.py
ModuleNames ==
  {"np", "make_design", "plt", "nxb", "nr", "_cluster", "streamwise_grid",
   "merid_grid", "blade_to_blade_mesh"}

\* evaluation of a name inside a function body: the local, else the module
\* global, else NameError
Lookup(locals, name) ==
  IF name \in DOMAIN locals THEN [bound |-> TRUE, value |-> locals[name]]
  ELSE IF name \in ModuleNames THEN [bound |-> TRUE, value |-> name]
  ELSE [bound |-> FALSE, value |-> NoValue]

\* rh = np.interp(x_c, [0., 1.], rm - Dr / 2.0)
HubLine(x_c, rm, Dr) ==
  LET fp == [e \in 1..2 |-> RSub(rm, RDiv(Dr[e], R(2)))]
  IN  [i \in 1..Len(x_c) |-> Interp(x_c[i], <<R(0), R(1)>>, fp)]

\* rc = np.interp(x_c, [0., 1.], rm + Dr / 2.0)
CasingLine(x_c, rm, Dr) ==
  LET fp == [e \in 1..2 |-> RAdd(rm, RDiv(Dr[e], R(2)))]
  IN  [i \in 1..Len(x_c) |-> Interp(x_c[i], <<R(0), R(1)>>, fp)]

\* RadiusGrid with the hub and casing weights exchanged
RadiusGrid_Swapped(spf, rh, rc) ==
  [i \in 1..Len(rh) |->
     [j \in 1..Len(spf) |->
        RAdd(RMul(spf[j], rh[i]), RMul(RSub(R(1), spf[j]), rc[i]))]]

\* r = spf * np.atleast_2d(rc).T + (1.-spf) * np.atleast_2d(rh).T
RadiusGrid(spf, rh, rc) ==
  [i \in 1..Len(rh) |->
     [j \in 1..Len(spf) |->
        RAdd(RMul(spf[j], rc[i]), RMul(RSub(R(1), spf[j]), rh[i]))]]

\* lines 90-93: hub and casing lines on the streamwise grid vector
MG_Lines ==
  /\ pc = "mg_call"
  /\ loc' = [loc EXCEPT !.rh = HubLine(args.x_c, args.rm, args.Dr),
                        !.rc = CasingLine(args.x_c, args.rm, args.Dr)]
  /\ pc' = "mg_fillet"
  /\ UNCHANGED <<args, ret, exc>>

\* lines 95-98: smooth the hub line about 0 and the casing line about 1
MG_Fillet ==
  /\ pc = "mg_fillet"
  /\ LET shifted == [i \in 1..Len(args.x_c) |-> RSub(args.x_c[i], R(1))]
     IN  loc' = [loc EXCEPT
           !.dxsmth_c = dxsmth_c,
           !.rh = _fillet(args.x_c, loc.rh, dxsmth_c),
           !.rc = _fillet(shifted, loc.rc, dxsmth_c)]
  /\ pc' = "mg_radius"
  /\ UNCHANGED <<args, ret, exc>>

\* lines 100-104: clustered span fraction and radial coordinates
MG_Radius ==
  /\ pc = "mg_radius"
  /\ LET spf == _cluster(nr)
     IN  loc' = [loc EXCEPT !.spf = spf, !.r = RadiusGrid(spf, loc.rh, loc.rc)]
  /\ pc' = "mg_exit"
  /\ UNCHANGED <<args, ret, exc>>

\* line 112: return x, r, i_edge
MG_Return ==
  /\ pc = "mg_exit"
  /\ LET x == Lookup(loc, "x")
         r == Lookup(loc, "r")
         i_edge == Lookup(loc, "i_edge")
     IN  IF x.bound /\ r.bound /\ i_edge.bound
           THEN /\ pc' = "mg_return"
                /\ ret' = <<x.value, r.value, i_edge.value>>
                /\ UNCHANGED exc
           ELSE /\ pc' = "mg_raise"
                /\ exc' = "NameError"
                /\ UNCHANGED ret
  /\ UNCHANGED <<args, loc>>

\* streamwise vectors tried: the leading edge at 0, the trailing edge at 1,
\* MeridDuct duct stations on either side and a mid-chord and two
\* near-edge stations inside the row
MeridDuct == 2

XcOf(nd, step) ==
  [i \in 1..nd |-> Rat(-(nd + 1 - i) * step, 10)]
    \o <<R(0), Rat(1, 10), Rat(1, 2), Rat(9, 10), R(1)>>
    \o [i \in 1..nd |-> Rat(10 + i * step, 10)]

XcSet == {XcOf(nd, step) : nd \in 1..MeridDuct, step \in {1, 3}}

\* mean radii and annulus spans tried (0 <= span <= 2 * mean radius)
RmSet == {R(2), R(3)}

DrEdge == {R(0), Rat(1, 2), R(1), R(2)}

DrSet == {<<a, b>> : a \in DrEdge, b \in DrEdge}

InitMG ==
  /\ pc = "mg_call"
  /\ \E x_c \in XcSet : \E rm \in RmSet : \E Dr \in DrSet :
       /\ args = [x_c |-> x_c, rm |-> rm, Dr |-> Dr, c |-> R(1)]
       /\ loc = [x_c |-> x_c, rm |-> rm, Dr |-> Dr, c |-> R(1),
                 rh |-> NoValue, rc |-> NoValue, dxsmth_c |-> NoValue,
                 spf |-> NoValue, r |-> NoValue]
  /\ ret = NoValue
  /\ exc = "none"

NextMG == MG_Lines \/ MG_Fillet \/ MG_Radius \/ MG_Return

SpecMG == InitMG /\ [][NextMG]_vars

(***************************************************************************)
(* Properties of merid_grid                                                *)
(***************************************************************************)
\* C9: merid_grid completes normally and returns the streamwise coordinates
\* it was given together with the radius field it computed.
C9_MeridReturns ==
  pc \in {"mg_return", "mg_raise"} =>
    /\ pc = "mg_return"
    /\ exc = "none"
    /\ ret[1] = args.x_c
    /\ ret[2] = loc.r

\* the radius field has been computed (line 104 has run)
mgAfterRadius == pc \in {"mg_exit", "mg_return", "mg_raise"}

\* hub <= casing at every streamwise station, after the fillets
HubBelowCasing == \A i \in 1..Len(loc.rh) : ~RGt(loc.rh[i], loc.rc[i])

\* r[i, :] does not decrease with the spanwise index
SpanMonotone(i) ==
  \A j \in 1..(Len(loc.r[i]) - 1) : ~RGt(loc.r[i][j], loc.r[i][j + 1])

\* C11: in merid_grid, when the span Dr is non-negative at both edges and
\* the filleted lines keep hub <= casing, the radius field is non-decreasing
\* in the spanwise index at every streamwise index, r[i, 0] is the hub radius
\* and r[i, last] is the casing radius.
C11_RadiusMonotone ==
  (/\ mgAfterRadius
   /\ args.Dr[1].n >= 0
   /\ args.Dr[2].n >= 0
   /\ HubBelowCasing) =>
    \A i \in 1..Len(loc.r) :
      /\ Len(loc.r[i]) = nr
      /\ loc.r[i][1] = loc.rh[i]
      /\ Last(loc.r[i]) = loc.rc[i]
      /\ SpanMonotone(i)

\* C11 witness: a field computed for an annulus closed at the leading edge
\* and open at the trailing edge, whose hub line the fillet has changed; the
\* hub and casing rows are in place and the rows between rise strictly where
\* the annulus is open.
C11_Witness ==
  /\ mgAfterRadius
  /\ args.Dr[1].n = 0
  /\ args.Dr[2].n > 0
  /\ HubBelowCasing
  /\ loc.rh # HubLine(args.x_c, args.rm, args.Dr)
  /\ \E i \in 1..Len(loc.r) :
       /\ RLt(loc.rh[i], loc.rc[i])
       /\ loc.r[i][1] = loc.rh[i]
       /\ Last(loc.r[i]) = loc.rc[i]
       /\ \A j \in 1..(nr - 1) : RLt(loc.r[i][j], loc.r[i][j + 1])
  /\ \E i \in 1..Len(loc.r) :
       /\ loc.rh[i] = loc.rc[i]
       /\ \A j \in 1..nr : loc.r[i][j] = loc.rh[i]

=============================================================================
